---- MODULE Spec2Model ----
(***************************************************************************)
(* Model of Num2FracStr (src/js/num2decstrl.js): the conversion of a       *)
(* number, or a numeric-looking string, to fixed-point decimal notation.   *)
(* Strings are sequences of one-character strings.                         *)
(***************************************************************************)
EXTENDS Integers, Sequences, FiniteSets, TLC

\* ------------------------------------------------------------------------
\* Bounds of the model
\* ------------------------------------------------------------------------
MaxIntDigits == 2   \* digits written in the integer part of a literal
MaxFracDigits == 3  \* digits written in the fraction part of a literal
MaxExp == 3         \* largest exponent magnitude written in a literal
MaxTextLen == 3     \* length of the free-form texts
MaxCalls == 2       \* calls in a row, each on the previous call's output

\* ------------------------------------------------------------------------
\* Characters and elementary string functions
\* ------------------------------------------------------------------------
Digit == {"0", "1", "2", "3", "4", "5", "6", "7", "8", "9"}
NonZeroDigit == Digit \ {"0"}

DigitVal(c) ==
  CASE c = "0" -> 0 [] c = "1" -> 1 [] c = "2" -> 2 [] c = "3" -> 3
    [] c = "4" -> 4 [] c = "5" -> 5 [] c = "6" -> 6 [] c = "7" -> 7
    [] c = "8" -> 8 [] c = "9" -> 9

DigitChar(d) ==
  CASE d = 0 -> "0" [] d = 1 -> "1" [] d = 2 -> "2" [] d = 3 -> "3"
    [] d = 4 -> "4" [] d = 5 -> "5" [] d = 6 -> "6" [] d = 7 -> "7"
    [] d = 8 -> "8" [] d = 9 -> "9"

Front(s) == SubSeq(s, 1, Len(s) - 1)
Last(s) == s[Len(s)]

\* n copies of "0"  ("0".repeat(n))
Zeros(n) == [i \in 1..n |-> "0"]

\* decimal digits -> natural number
RECURSIVE DecToNat(_)
DecToNat(s) == IF s = <<>> THEN 0 ELSE DecToNat(Front(s)) * 10 + DigitVal(Last(s))

\* natural number -> decimal digits
RECURSIVE NatToDec(_)
NatToDec(n) == IF n < 10 THEN <<DigitChar(n)>>
               ELSE NatToDec(n \div 10) \o <<DigitChar(n % 10)>>

\* first position j >= i of s whose character is not in S (Len(s)+1 if none)
RECURSIVE SkipWhile(_, _, _)
SkipWhile(s, i, S) ==
  IF i <= Len(s) /\ s[i] \in S THEN SkipWhile(s, i + 1, S) ELSE i

RECURSIVE StripTrailingZeros(_)
StripTrailingZeros(s) ==
  IF s # <<>> /\ Last(s) = "0" THEN StripTrailingZeros(Front(s)) ELSE s

RECURSIVE StripLeadingZeros(_)
StripLeadingZeros(s) ==
  IF s # <<>> /\ Head(s) = "0" THEN StripLeadingZeros(Tail(s)) ELSE s

\* ------------------------------------------------------------------------
\* String(number) for a numeric primitive (ECMAScript Number::toString).
\* A finite nonzero number is  (-1)^neg * 0.d1 d2 ... dk * 10^n  with d1 and
\* dk nonzero; zero has no digits.
\* ------------------------------------------------------------------------
NoNum == [kind |-> "none", neg |-> FALSE, digits |-> <<>>, n |-> 0]

FiniteToString(d, n) ==
  LET k == Len(d)
      e == n - 1
      es == (IF e < 0 THEN <<"-">> ELSE <<"+">>) \o NatToDec(IF e < 0 THEN -e ELSE e)
  IN  IF k = 0 THEN <<"0">>
      ELSE IF k <= n /\ n <= 21 THEN d \o Zeros(n - k)
      ELSE IF 0 < n /\ n <= 21 THEN SubSeq(d, 1, n) \o <<".">> \o SubSeq(d, n + 1, k)
      ELSE IF -6 < n /\ n <= 0 THEN <<"0", ".">> \o Zeros(-n) \o d
      ELSE IF k = 1 THEN d \o <<"e">> \o es
      ELSE <<d[1], ".">> \o SubSeq(d, 2, k) \o <<"e">> \o es

NumberToString(x) ==
  CASE x.kind = "NaN" -> <<"N", "a", "N">>
    [] x.kind = "Infinity" ->
         (IF x.neg THEN <<"-">> ELSE <<>>) \o <<"I", "n", "f", "i", "n", "i", "t", "y">>
    [] x.kind = "finite" ->
         (IF x.neg /\ x.digits # <<>> THEN <<"-">> ELSE <<>>) \o FiniteToString(x.digits, x.n)

\* const numStr = String(number)
ToStr(number) ==
  IF number.type = "number" THEN NumberToString(number.num) ELSE number.str

\* ------------------------------------------------------------------------
\* numStr.match(/^([+-]?)0*([1-9][0-9]*|)(?:\.([0-9]*[1-9]|)0*)?(?:[eE]([+-]?[0-9]+))?$/)
\* A group that did not take part in the match is "undefined": def = FALSE.
\* ------------------------------------------------------------------------
NoGroup == [def |-> FALSE, text |-> <<>>]
Group(t) == [def |-> TRUE, text |-> t]
NoMatch == [ok |-> FALSE, g1 |-> NoGroup, g2 |-> NoGroup, g3 |-> NoGroup, g4 |-> NoGroup]

MatchNoExponent(s) ==
  LET n == Len(s)
      p1 == IF n >= 1 /\ s[1] \in {"+", "-"} THEN 2 ELSE 1
      p2 == SkipWhile(s, p1, {"0"})
      p3 == IF p2 <= n /\ s[p2] \in NonZeroDigit THEN SkipWhile(s, p2, Digit) ELSE p2
      hasFrac == p3 <= n /\ s[p3] = "."
      p4 == IF hasFrac THEN SkipWhile(s, p3 + 1, Digit) ELSE p3
  IN  IF p4 = n + 1
      THEN [ok |-> TRUE,
            g1 |-> Group(SubSeq(s, 1, p1 - 1)),
            g2 |-> Group(SubSeq(s, p2, p3 - 1)),
            g3 |-> IF hasFrac THEN Group(StripTrailingZeros(SubSeq(s, p3 + 1, p4 - 1)))
                   ELSE NoGroup,
            g4 |-> NoGroup]
      ELSE NoMatch

MatchDigitRequired(s) ==
  LET n == Len(s)
      p1 == IF n >= 1 /\ s[1] \in {"+", "-"} THEN 2 ELSE 1
      p3 == SkipWhile(s, p1, Digit)
      hasFrac == p3 <= n /\ s[p3] = "."
      p4 == IF hasFrac THEN SkipWhile(s, p3 + 1, Digit) ELSE p3
      hasE == p4 <= n /\ s[p4] \in {"e", "E"}
      p5 == IF hasE /\ p4 + 1 <= n /\ s[p4 + 1] \in {"+", "-"} THEN p4 + 2 ELSE p4 + 1
      p6 == IF hasE THEN SkipWhile(s, p5, Digit) ELSE p4
      hasExp == hasE /\ p6 > p5
      pEnd == IF hasExp THEN p6 ELSE p4
      digits == (p3 - p1) + (IF hasFrac THEN p4 - p3 - 1 ELSE 0)
  IN  IF pEnd = n + 1 /\ digits > 0
      THEN [ok |-> TRUE,
            g1 |-> Group(SubSeq(s, 1, p1 - 1)),
            g2 |-> Group(StripLeadingZeros(SubSeq(s, p1, p3 - 1))),
            g3 |-> IF hasFrac THEN Group(StripTrailingZeros(SubSeq(s, p3 + 1, p4 - 1)))
                   ELSE NoGroup,
            g4 |-> IF hasExp THEN Group(SubSeq(s, p4 + 1, p6 - 1)) ELSE NoGroup]
      ELSE NoMatch

MatchKeepZeros(s) ==
  LET n == Len(s)
      p1 == IF n >= 1 /\ s[1] \in {"+", "-"} THEN 2 ELSE 1
      p3 == SkipWhile(s, p1, Digit)
      hasFrac == p3 <= n /\ s[p3] = "."
      p4 == IF hasFrac THEN SkipWhile(s, p3 + 1, Digit) ELSE p3
      hasE == p4 <= n /\ s[p4] \in {"e", "E"}
      p5 == IF hasE /\ p4 + 1 <= n /\ s[p4 + 1] \in {"+", "-"} THEN p4 + 2 ELSE p4 + 1
      p6 == IF hasE THEN SkipWhile(s, p5, Digit) ELSE p4
      hasExp == hasE /\ p6 > p5
      pEnd == IF hasExp THEN p6 ELSE p4
  IN  IF pEnd = n + 1
      THEN [ok |-> TRUE,
            g1 |-> Group(SubSeq(s, 1, p1 - 1)),
            g2 |-> Group(SubSeq(s, p1, p3 - 1)),
            g3 |-> IF hasFrac THEN Group(SubSeq(s, p3 + 1, p4 - 1)) ELSE NoGroup,
            g4 |-> IF hasExp THEN Group(SubSeq(s, p4 + 1, p6 - 1)) ELSE NoGroup]
      ELSE NoMatch

Match(s) ==
  LET n == Len(s)
      \* ([+-]?)
      p1 == IF n >= 1 /\ s[1] \in {"+", "-"} THEN 2 ELSE 1
      \* 0*
      p2 == SkipWhile(s, p1, {"0"})
      \* ([1-9][0-9]*|)
      p3 == IF p2 <= n /\ s[p2] \in NonZeroDigit THEN SkipWhile(s, p2, Digit) ELSE p2
      \* (?:\.([0-9]*[1-9]|)0*)?
      hasFrac == p3 <= n /\ s[p3] = "."
      p4 == IF hasFrac THEN SkipWhile(s, p3 + 1, Digit) ELSE p3
      \* (?:[eE]([+-]?[0-9]+))?
      hasE == p4 <= n /\ s[p4] \in {"e", "E"}
      p5 == IF hasE /\ p4 + 1 <= n /\ s[p4 + 1] \in {"+", "-"} THEN p4 + 2 ELSE p4 + 1
      p6 == IF hasE THEN SkipWhile(s, p5, Digit) ELSE p4
      hasExp == hasE /\ p6 > p5
      pEnd == IF hasExp THEN p6 ELSE p4
  IN  \* $
      IF pEnd = n + 1
      THEN [ok |-> TRUE,
            g1 |-> Group(SubSeq(s, 1, p1 - 1)),
            g2 |-> Group(SubSeq(s, p2, p3 - 1)),
            g3 |-> IF hasFrac THEN Group(StripTrailingZeros(SubSeq(s, p3 + 1, p4 - 1)))
                   ELSE NoGroup,
            g4 |-> IF hasExp THEN Group(SubSeq(s, p4 + 1, p6 - 1)) ELSE NoGroup]
      ELSE NoMatch

\* ------------------------------------------------------------------------
\* The parsed literal (lines 47-53)
\* ------------------------------------------------------------------------
NaN == [nan |-> TRUE, val |-> 0]
Num(v) == [nan |-> FALSE, val |-> v]

\* match[1] === "-" ? "-" : ""
ParseSignKeepPlus(g1) == g1.text

ParseSign(g1) == IF g1.def /\ g1.text = <<"-">> THEN <<"-">> ELSE <<>>

\* match[3] ? match[3] : ""
MantissaFrac(g3) == IF g3.def /\ g3.text # <<>> THEN g3.text ELSE <<>>

\* Number(match[4]): NaN for undefined, else the signed decimal integer
ToNumber(g4) ==
  IF ~g4.def THEN NaN
  ELSE IF Head(g4.text) = "-" THEN Num(-DecToNat(Tail(g4.text)))
  ELSE IF Head(g4.text) = "+" THEN Num(DecToNat(Tail(g4.text)))
  ELSE Num(DecToNat(g4.text))

\* if (exponent): NaN and 0 are false
Truthy(x) == ~x.nan /\ x.val # 0

\* ------------------------------------------------------------------------
\* Reconstruction (lines 70-126)
\* ------------------------------------------------------------------------
\* mantissa_int.length + exponent
MantissaIntLenSubtract(mi, e) == Len(mi) - e

MantissaIntLen(mi, e) == Len(mi) + e

\* mantissa_str.padEnd(len, "0")
PadEnd(s, len) == IF len > Len(s) THEN s \o Zeros(len - Len(s)) ELSE s

\* mantissa_str.slice(0, k) + "." + mantissa_str.slice(k)
SplitAt(s, k) == SubSeq(s, 1, k) \o <<".">> \o SubSeq(s, k + 1, Len(s))

\* "0." + "0".repeat(-k) + mantissa_str
SmallFraction(s, k) == <<"0", ".">> \o Zeros(-k) \o s

\* (mantissa_int || "0") + "." + mantissa_frac
FracNotation(mi, mf) == (IF mi # <<>> THEN mi ELSE <<"0">>) \o <<".">> \o mf

\* ------------------------------------------------------------------------
\* Final normalisation (lines 129-135)
\* ------------------------------------------------------------------------
\* .replace(/^(?:0(?!\.|$))+/, "")
RECURSIVE RemoveLeadingZeros(_)
RemoveLeadingZeros(s) ==
  IF Len(s) >= 2 /\ s[1] = "0" /\ s[2] # "." THEN RemoveLeadingZeros(Tail(s)) ELSE s

\* position of the last "." of s, 0 if there is none
RECURSIVE LastDot(_)
LastDot(s) == IF s = <<>> THEN 0 ELSE IF Last(s) = "." THEN Len(s) ELSE LastDot(Front(s))

\* .replace(/(?:\.0+|(\.[0-9]*[1-9])0+)$/, "$1")
KeepTrailingZeros(s) == s

RemoveTrailingZeros(s) ==
  LET p == LastDot(s)
      tail == SubSeq(s, p + 1, Len(s))
  IN  IF p = 0 \/ tail = <<>> \/ (\E i \in 1..Len(tail) : tail[i] \notin Digit)
         \/ Last(tail) # "0"
      THEN s
      ELSE IF StripTrailingZeros(tail) = <<>>
      THEN SubSeq(s, 1, p - 1)
      ELSE SubSeq(s, 1, p) \o StripTrailingZeros(tail)

\* (returnValue) ? sign + returnValue.replace(...).replace(...) : "0"
FinishSignedZero(sg, rv) ==
  sg \o (IF rv # <<>> THEN RemoveTrailingZeros(RemoveLeadingZeros(rv)) ELSE <<"0">>)

Finish(sg, rv) ==
  IF rv # <<>> THEN sg \o RemoveTrailingZeros(RemoveLeadingZeros(rv)) ELSE <<"0">>

\* `Invalid Number: "${numStr}"`
ErrorMessageFixed(t) ==
  <<"I", "n", "v", "a", "l", "i", "d", " ", "N", "u", "m", "b", "e", "r">>

ErrorMessage(t) ==
  <<"I", "n", "v", "a", "l", "i", "d", " ", "N", "u", "m", "b", "e", "r", ":", " ", "\"">>
    \o t \o <<"\"">>

\* typeof number == "number"
IsNumberNever(number) == FALSE

IsNumber(number) == number.type = "number"

\* ------------------------------------------------------------------------
\* Inputs
\* ------------------------------------------------------------------------
SeqsUpTo(S, n) == UNION {[1..k -> S] : k \in 0..n}

Signs == {<<>>, <<"+">>, <<"-">>}
IntParts == SeqsUpTo({"0", "1"}, MaxIntDigits)
FracParts == {<<>>} \cup {<<".">> \o d : d \in SeqsUpTo({"0", "2"}, MaxFracDigits)}
ExpTexts == {NatToDec(k) : k \in 0..MaxExp}
ExpParts == {<<>>} \cup {<<m>> \o sg \o d : m \in {"e", "E"}, sg \in Signs, d \in ExpTexts}

\* texts built after the literal grammar
Literals == {sg \o ip \o fp \o ep : sg \in Signs, ip \in IntParts, fp \in FracParts, ep \in ExpParts}

\* free-form texts, well-formed or not
Alphabet == {"0", "1", ".", "-", "+", "e", "a", " "}
Texts == SeqsUpTo(Alphabet, MaxTextLen)
Examples == {<<"a", "b", "c">>, <<"1", ".", "2", ".", "3">>, <<"N", "a", "N">>,
             <<"I", "n", "f", "i", "n", "i", "t", "y">>,
             <<"-", "I", "n", "f", "i", "n", "i", "t", "y">>,
             <<"0", "0", "7", ".", "5", "0">>, <<"1", ".", "2", "3", "0", "0">>,
             <<"1", "2", ".", "1", "4", "5", "e", "+", "0", "3">>,
             <<"1", "2", ".", "1", "4", "5", "E", "-", "0", "2">>,
             <<"9", "e", "-", "0", "0">>}

StringInputs == {[type |-> "string", str |-> t, num |-> NoNum] : t \in Literals \cup Texts \cup Examples}

\* significant digits of a finite nonzero number: first and last nonzero
SigDigits == {d \in SeqsUpTo({"0", "1", "2"}, MaxFracDigits) :
                d # <<>> /\ Head(d) # "0" /\ Last(d) # "0"}
Magnitudes == (-8 .. 4) \cup (20 .. 23)
Numbers ==
  {[kind |-> "NaN", neg |-> FALSE, digits |-> <<>>, n |-> 0]}
  \cup {[kind |-> "Infinity", neg |-> b, digits |-> <<>>, n |-> 0] : b \in BOOLEAN}
  \cup {[kind |-> "finite", neg |-> b, digits |-> <<>>, n |-> 0] : b \in BOOLEAN}
  \cup {[kind |-> "finite", neg |-> b, digits |-> d, n |-> m] :
          b \in BOOLEAN, d \in SigDigits, m \in Magnitudes}

NumberInputs == {[type |-> "number", str |-> <<>>, num |-> x] : x \in Numbers}

Inputs == StringInputs \cup NumberInputs

\* ------------------------------------------------------------------------
\* State
\* ------------------------------------------------------------------------
VARIABLES
  number,         \* the argument of the call
  pc,             \* position in Num2FracStr
  numStr, match,  \* lines 22, 27
  sign, mantissa_int, mantissa_frac, exponent,   \* lines 47-53
  returnValue,    \* line 55
  result,         \* the returned string, or the thrown error's message
  calls,          \* number of the call in progress
  prev            \* the string the previous call returned

vars == <<number, pc, numStr, match, sign, mantissa_int, mantissa_frac, exponent,
          returnValue, result, calls, prev>>

locals == <<sign, mantissa_int, mantissa_frac, exponent, returnValue>>

BuiltPcs == {"pad", "split", "small", "nodigits", "frac", "int", "zero"}

Init ==
  /\ number \in Inputs
  /\ pc = "call"
  /\ numStr = <<>>
  /\ match = NoMatch
  /\ sign = <<>>
  /\ mantissa_int = <<>>
  /\ mantissa_frac = <<>>
  /\ exponent = NaN
  /\ returnValue = <<>>
  /\ result = <<>>
  /\ calls = 1
  /\ prev = <<>>

\* lines 22-27
Stringify ==
  /\ pc = "call"
  /\ numStr' = ToStr(number)
  /\ match' = Match(ToStr(number))
  /\ pc' = "matched"
  /\ UNCHANGED <<number, locals, result, calls, prev>>

\* lines 32-37
ReturnNumStr ==
  /\ pc = "matched"
  /\ ~match.ok
  /\ IsNumber(number)
  /\ result' = numStr
  /\ pc' = "returned"
  /\ UNCHANGED <<number, numStr, match, locals, calls, prev>>

\* lines 38-43
ThrowInvalid ==
  /\ pc = "matched"
  /\ ~match.ok
  /\ ~IsNumber(number)
  /\ result' = ErrorMessage(numStr)
  /\ pc' = "thrown"
  /\ UNCHANGED <<number, numStr, match, locals, calls, prev>>

\* lines 47-55
Parse ==
  /\ pc = "matched"
  /\ match.ok
  /\ sign' = ParseSign(match.g1)
  /\ mantissa_int' = match.g2.text
  /\ mantissa_frac' = MantissaFrac(match.g3)
  /\ exponent' = ToNumber(match.g4)
  /\ returnValue' = <<>>
  /\ pc' = "parsed"
  /\ UNCHANGED <<number, numStr, match, result, calls, prev>>

mantissa_str == mantissa_int \o mantissa_frac
mantissa_len == Len(mantissa_str)
mantissa_int_len == MantissaIntLen(mantissa_int, exponent.val)

Keep == UNCHANGED <<number, numStr, match, sign, mantissa_int, mantissa_frac, exponent,
                    result, calls, prev>>

\* lines 57, 74: exponent branch with an empty mantissa
BranchNoDigits ==
  /\ pc = "parsed"
  /\ Truthy(exponent)
  /\ ~(0 < mantissa_len)
  /\ pc' = "nodigits"
  /\ UNCHANGED returnValue
  /\ Keep

\* lines 96-100
BranchPad ==
  /\ pc = "parsed"
  /\ Truthy(exponent)
  /\ 0 < mantissa_len
  /\ mantissa_len <= mantissa_int_len
  /\ returnValue' = PadEnd(mantissa_str, mantissa_int_len)
  /\ pc' = "pad"
  /\ Keep

\* lines 102-106
BranchSplit ==
  /\ pc = "parsed"
  /\ Truthy(exponent)
  /\ 0 < mantissa_len
  /\ ~(mantissa_len <= mantissa_int_len)
  /\ 0 < mantissa_int_len
  /\ returnValue' = SplitAt(mantissa_str, mantissa_int_len)
  /\ pc' = "split"
  /\ Keep

\* lines 108-112
BranchSmall ==
  /\ pc = "parsed"
  /\ Truthy(exponent)
  /\ 0 < mantissa_len
  /\ ~(mantissa_len <= mantissa_int_len)
  /\ ~(0 < mantissa_int_len)
  /\ returnValue' = SmallFraction(mantissa_str, mantissa_int_len)
  /\ pc' = "small"
  /\ Keep

\* lines 116-120
BranchFrac ==
  /\ pc = "parsed"
  /\ ~Truthy(exponent)
  /\ mantissa_frac # <<>>
  /\ returnValue' = FracNotation(mantissa_int, mantissa_frac)
  /\ pc' = "frac"
  /\ Keep

\* lines 122-126
BranchInt ==
  /\ pc = "parsed"
  /\ ~Truthy(exponent)
  /\ mantissa_frac = <<>>
  /\ mantissa_int # <<>>
  /\ returnValue' = mantissa_int
  /\ pc' = "int"
  /\ Keep

\* no branch of lines 57-127 taken
BranchZero ==
  /\ pc = "parsed"
  /\ ~Truthy(exponent)
  /\ mantissa_frac = <<>>
  /\ mantissa_int = <<>>
  /\ pc' = "zero"
  /\ UNCHANGED returnValue
  /\ Keep

\* lines 129-135
Return ==
  /\ pc \in BuiltPcs
  /\ result' = Finish(sign, returnValue)
  /\ pc' = "returned"
  /\ UNCHANGED <<number, numStr, match, locals, calls, prev>>

\* the caller passes the returned string to Num2FracStr again
Renormalize ==
  /\ pc = "returned"
  /\ calls < MaxCalls
  /\ number' = [type |-> "string", str |-> result, num |-> NoNum]
  /\ prev' = result
  /\ calls' = calls + 1
  /\ pc' = "call"
  /\ numStr' = <<>>
  /\ match' = NoMatch
  /\ sign' = <<>>
  /\ mantissa_int' = <<>>
  /\ mantissa_frac' = <<>>
  /\ exponent' = NaN
  /\ returnValue' = <<>>
  /\ result' = <<>>

Next ==
  \/ Stringify
  \/ ReturnNumStr
  \/ ThrowInvalid
  \/ Parse
  \/ BranchNoDigits
  \/ BranchPad
  \/ BranchSplit
  \/ BranchSmall
  \/ BranchFrac
  \/ BranchInt
  \/ BranchZero
  \/ Return
  \/ Renormalize

Spec == Init /\ [][Next]_vars

\* ------------------------------------------------------------------------
\* What a text denotes, read off the text itself
\* ------------------------------------------------------------------------
AllDigits(s) == \A i \in 1..Len(s) : s[i] \in Digit

IsSignPart(s) == s \in {<<>>, <<"+">>, <<"-">>}
IsFracPart(s) == s = <<>> \/ (s[1] = "." /\ AllDigits(Tail(s)))
IsExpPart(s) ==
  \/ s = <<>>
  \/ /\ s[1] \in {"e", "E"}
     /\ LET r == Tail(s)
            d == IF r # <<>> /\ r[1] \in {"+", "-"} THEN Tail(r) ELSE r
        IN  d # <<>> /\ AllDigits(d)

\* literal := sign? digit* ("." digit*)? (("e"|"E") sign? digit+)?
InGrammar(t) ==
  \E i \in 0..1 : \E j \in i..Len(t) : \E k \in j..Len(t) :
    /\ i <= Len(t)
    /\ IsSignPart(SubSeq(t, 1, i))
    /\ AllDigits(SubSeq(t, i + 1, j))
    /\ IsFracPart(SubSeq(t, j + 1, k))
    /\ IsExpPart(SubSeq(t, k + 1, Len(t)))

Unsigned(t) == IF t # <<>> /\ t[1] \in {"+", "-"} THEN Tail(t) ELSE t

\* the text before the exponent marker, sign removed
MantissaText(t) ==
  LET u == Unsigned(t) IN SubSeq(u, 1, SkipWhile(u, 1, Digit \cup {"."}) - 1)

HasExpMarker(t) == \E i \in 1..Len(t) : t[i] \in {"e", "E"}

\* the written exponent, 0 when there is none
ExponentOf(t) ==
  LET u == Unsigned(t)
      p == SkipWhile(u, 1, Digit \cup {"."})
      x == SubSeq(u, p + 1, Len(u))
  IN  IF p > Len(u) THEN 0
      ELSE IF x[1] = "-" THEN -DecToNat(Tail(x))
      ELSE DecToNat(Unsigned(x))

RawInt(t) == LET m == MantissaText(t) IN SubSeq(m, 1, SkipWhile(m, 1, Digit) - 1)
RawFrac(t) == LET m == MantissaText(t) IN SubSeq(m, SkipWhile(m, 1, Digit) + 1, Len(m))

\* A decimal value (-1)^neg * 0.d1...dk * 10^point with d1 and dk nonzero;
\* zero is the value without digits.
ZeroValue == [neg |-> FALSE, digits |-> <<>>, point |-> 0]

RECURSIVE Canonical(_, _, _)
Canonical(neg, d, point) ==
  IF d # <<>> /\ Head(d) = "0" THEN Canonical(neg, Tail(d), point - 1)
  ELSE IF StripTrailingZeros(d) = <<>> THEN ZeroValue
  ELSE [neg |-> neg, digits |-> StripTrailingZeros(d), point |-> point]

TextValue(t) ==
  Canonical(t # <<>> /\ t[1] = "-", RawInt(t) \o RawFrac(t), Len(RawInt(t)) + ExponentOf(t))

NumberValue(x) == Canonical(x.neg, x.digits, x.n)

Contains(s, t) == \E i \in 0..(Len(s) - Len(t)) : SubSeq(s, i + 1, i + Len(t)) = t

Finished == pc \in {"returned", "thrown"}

SpecialTokens == {<<"N", "a", "N">>, <<"I", "n", "f", "i", "n", "i", "t", "y">>,
                  <<"-", "I", "n", "f", "i", "n", "i", "t", "y">>}

\* The scanner of Match accepts exactly the texts of the grammar.
MatchIsGrammar == pc # "call" => (match.ok <=> InGrammar(numStr))

\* ------------------------------------------------------------------------
\* Properties
\* ------------------------------------------------------------------------

\* C1: for every input whose text matches the grammar, the returned string
\* denotes the same decimal value as the input text, and for a numeric
\* input the value of the number itself.
ValuePreserved ==
  (pc = "returned" /\ InGrammar(numStr)) =>
     /\ InGrammar(result)
     /\ ~HasExpMarker(result)
     /\ TextValue(result) = TextValue(numStr)
     /\ (number.type = "number" => TextValue(result) = NumberValue(number.num))

ValuePreservedWitness ==
  /\ pc = "returned"
  /\ InGrammar(numStr)
  /\ HasExpMarker(numStr)
  /\ ExponentOf(numStr) < 0
  /\ Len(RawInt(numStr)) = 2
  /\ Contains(result, <<"1", ".">>)

\* C2 as stated: a second call on a returned string returns that string.
Idempotent ==
  (Finished /\ calls >= 2) => (pc = "returned" /\ result = prev)

\* C2 amended: a second call on a returned string returns that string,
\* unless the string is the passed-through text of a numeric special value
\* (NaN, Infinity, -Infinity), on which the second call raises.
IdempotentOnLiterals ==
  (Finished /\ calls >= 2) =>
     IF prev \in SpecialTokens THEN pc = "thrown"
     ELSE pc = "returned" /\ result = prev

IdempotentWitness ==
  /\ pc = "returned"
  /\ calls = 2
  /\ prev[1] = "-"
  /\ Contains(prev, <<".">>)
  /\ result = prev

\* C3: the unsigned part of a returned string has no leading zero except a
\* single "0" before the decimal point or as the whole of it, at most one
\* decimal point, and after the point a non-empty digit run not ending in 0.
NoRedundantZeros ==
  pc = "returned" =>
    LET u == IF result # <<>> /\ result[1] = "-" THEN Tail(result) ELSE result
        dots == {i \in 1..Len(u) : u[i] = "."}
    IN  /\ (u # <<>> /\ u[1] = "0") => (Len(u) = 1 \/ u[2] = ".")
        /\ Cardinality(dots) <= 1
        /\ \A p \in dots : /\ p < Len(u)
                           /\ AllDigits(SubSeq(u, p + 1, Len(u)))
                           /\ Last(u) # "0"

NoRedundantZerosWitness ==
  /\ pc = "returned"
  /\ returnValue = <<"0", "0", ".", "2">>
  /\ result = <<"-", "0", ".", "2">>

\* C4: a returned string contains neither "e" nor "E".
NoExponentInOutput ==
  pc = "returned" => \A i \in 1..Len(result) : result[i] \notin {"e", "E"}

NoExponentInOutputWitness ==
  /\ pc = "returned"
  /\ number.type = "number"
  /\ HasExpMarker(numStr)
  /\ Len(result) > 21

\* C5: an input of the grammar whose mantissa has no nonzero digit returns
\* exactly "0", whatever its sign and exponent.
CanonicalZero ==
  (pc = "returned" /\ InGrammar(numStr)
     /\ \A i \in 1..Len(MantissaText(numStr)) : MantissaText(numStr)[i] \notin NonZeroDigit)
  => result = <<"0">>

CanonicalZeroWitness ==
  /\ pc = "returned"
  /\ numStr = <<"-", "0", "0", ".", "0", "0", "e", "-", "3">>
  /\ result = <<"0">>

\* C6: for an input of the grammar the returned string begins with "-"
\* exactly when the input's sign is "-" and its magnitude is not zero, and
\* it never begins with "+".
SignRule ==
  (pc = "returned" /\ InGrammar(numStr)) =>
     /\ (result # <<>> /\ result[1] = "-")
          <=> (numStr # <<>> /\ numStr[1] = "-" /\ TextValue(numStr) # ZeroValue)
     /\ ~(result # <<>> /\ result[1] = "+")

SignRuleWitness ==
  /\ pc = "returned"
  /\ numStr # <<>>
  /\ numStr[1] = "+"
  /\ TextValue(numStr) # ZeroValue
  /\ result[1] \in NonZeroDigit

\* C7: a string input whose text is not of the grammar raises an error
\* whose message contains the text, and returns nothing.
MalformedStringRaises ==
  (Finished /\ number.type = "string" /\ ~InGrammar(ToStr(number))) =>
     /\ pc = "thrown"
     /\ Contains(result, number.str)

MalformedStringRaisesWitness ==
  /\ pc = "thrown"
  /\ number.str = <<"1", ".", "2", ".", "3">>
  /\ calls = 1

\* C8: a numeric input never raises; when its rendered text is not of the
\* grammar (NaN, Infinity, -Infinity) that text is returned unchanged.
NumericNeverRaises ==
  number.type = "number" =>
     /\ pc # "thrown"
     /\ (pc = "returned" /\ ~InGrammar(NumberToString(number.num)))
          => (result = NumberToString(number.num) /\ result \in SpecialTokens)

NumericNeverRaisesWitness ==
  /\ pc = "returned"
  /\ number.type = "number"
  /\ number.num.kind = "Infinity"
  /\ number.num.neg
  /\ result = <<"-", "I", "n", "f", "i", "n", "i", "t", "y">>

\* C9: once a text of the grammar is parsed, mantissa_int is the integer
\* digits without their leading zeros, mantissa_frac the fraction digits
\* without their trailing zeros, and a text without exponent marker is
\* handled as one whose exponent is 0.
ParsedLiteralInvariants ==
  (pc \in {"parsed", "returned"} \cup BuiltPcs /\ match.ok) =>
     /\ mantissa_int = StripLeadingZeros(RawInt(numStr))
     /\ (mantissa_int = <<>> \/ Head(mantissa_int) # "0")
     /\ mantissa_frac = StripTrailingZeros(RawFrac(numStr))
     /\ (mantissa_frac = <<>> \/ Last(mantissa_frac) # "0")
     /\ ~HasExpMarker(numStr) =>
          (~Truthy(exponent) /\ pc \notin {"pad", "split", "small", "nodigits"})
     /\ HasExpMarker(numStr) => exponent = Num(ExponentOf(numStr))

ParsedLiteralInvariantsWitness ==
  /\ pc = "frac"
  /\ ~HasExpMarker(numStr)
  /\ RawInt(numStr) = <<"0", "1">>
  /\ RawFrac(numStr) = <<"2", "0">>
  /\ mantissa_int = <<"1">>
  /\ mantissa_frac = <<"2">>

\* C10: a string input of the pattern without any mantissa digit ("", "+",
\* "-", ".", "-.", "e5", "+.e-3") is accepted: the call returns "0".
DigitlessAccepted ==
  (Finished /\ number.type = "string" /\ InGrammar(number.str)
     /\ \A i \in 1..Len(MantissaText(number.str)) : MantissaText(number.str)[i] \notin Digit)
  => (pc = "returned" /\ result = <<"0">>)

DigitlessAcceptedWitness ==
  /\ pc = "returned"
  /\ number.str = <<"+", ".", "e", "-", "3">>
  /\ number.type = "string"
  /\ result = <<"0">>

====
